---- MODULE Spec2Model ----
(***************************************************************************)
(* Model of stepik_studio_postprocessing/audio_processing:                 *)
(*   noise_cancellation/adaptive_cancellation.py  AdaptiveNoiseCanceller   *)
(*   synchronization/cross_correlation_sync.py    CorrelationSynchronizer  *)
(* A behaviour constructs one object (a canceller or a synchronizer) and   *)
(* then runs calls on it one after another, each call step by step.        *)
(* Raw audio data is a sequence of bytes 0..255; a WAV file is a record of *)
(* its declared type, its header fields and its data bytes.                *)
(***************************************************************************)
EXTENDS Integers, Sequences, FiniteSets, TLC

VARIABLES
    obj,         \* which object was constructed: "canceller" | "synchronizer"
    nc,          \* AdaptiveNoiseCanceller fields (self.*)
    chunksize,   \* CorrelationSynchronizer.chunksize
    call,        \* arguments of the call in progress
    pc,          \* position of the call in progress
    opens,       \* stream name -> times opened during this call
    closes,      \* stream name -> times closed during this call
    rpos,        \* stream name -> data bytes consumed by readframes
    nreads,      \* readframes calls made during this call
    locals,      \* local variables of the running method
    out,         \* the output file of this call
    err,         \* the exception that ended the call, or None
    ret,         \* the value the call returned, or None
    configured,  \* history: the constructor arguments of the canceller
    first_call,  \* history: main metadata of the first process call made
    first_res,   \* history: main metadata of the first call that resolved defaults
    mix_in,      \* inputs of a direct _mix_samples evaluation
    mix_out      \* its result

vars == <<obj, nc, chunksize, call, pc, opens, closes, rpos, nreads, locals,
          out, err, ret, configured, first_call, first_res, mix_in, mix_out>>

None == "None"
WAV == "WAV"
MP3 == "MP3"

----------------------------------------------------------------------------
(* Bounds of the input space *)
MaxFrames == 3
MaxSamples == 4
RatioDen == 4
MixLen == 1

----------------------------------------------------------------------------
(* numpy conversions *)

Int16Mod == 65536
Int16Half == 32768
ByteMod == 256

Min(a, b) == IF a <= b THEN a ELSE b
Abs(x) == IF x < 0 THEN -x ELSE x

\* two's complement value of an unsigned w-byte pattern u
Signed(u, w) ==
    IF w = 1 THEN (IF u >= 128 THEN u - ByteMod ELSE u)
    ELSE (IF u >= Int16Half THEN u - Int16Mod ELSE u)

\* unsigned pattern of a signed 16-bit value
Unsigned16(v) == (v + Int16Mod) % Int16Mod

\* ndarray.astype(np.int16) of an integer value: wraparound
Wrap16(v) == ((v + Int16Half) % Int16Mod) - Int16Half

\* np.fromstring(data, dtype) with dtype of w bytes (w in 1..2), little endian;
\* raises ValueError when the size is no multiple of the element size
FromStringOk(data, w) == Len(data) % w = 0
FromString(data, w) ==
    [i \in 1..(Len(data) \div w) |->
        IF w = 1 THEN Signed(data[i], 1)
        ELSE Signed(data[2*i - 1] + ByteMod * data[2*i], 2)]

\* np.frombuffer(int16 array, np.byte) joined into a bytestring
ToBytes16(s) ==
    [i \in 1..(2 * Len(s)) |->
        IF i % 2 = 1 THEN Unsigned16(s[(i + 1) \div 2]) % ByteMod
        ELSE Unsigned16(s[i \div 2]) \div ByteMod]

\* b''.join(np.frombuffer(np.zeros(n, dtype of w bytes), np.byte))
ZeroBytes(n, w) == [i \in 1..(n * w) |-> 0]

----------------------------------------------------------------------------
(* AdaptiveNoiseCanceller: pure helpers.  A ratio is held as its numerator *)
(* over RatioDen (ratio = q / RatioDen, 0 <= q <= 2 * RatioDen); the two   *)
(* gains are numerators over 2 * RatioDen.                                 *)

\* a faulty _get_ratios: the two gains swapped
get_ratios_swapped(q) == <<2 * RatioDen - q, q>>

\* _get_ratios: ratio_1 = ratio / 2, ratio_2 = (2 - ratio) / 2
get_ratios(q) == <<q, 2 * RatioDen - q>>

\* a faulty cast: floor instead of truncation toward zero
astype_int16_floor(num, den) == Wrap16(num \div den)

\* (float64 value num / den).astype(np.int16): the fraction is discarded
\* (truncation toward zero), then the value is cut to 16 bits
astype_int16(num, den) ==
    Wrap16(IF num >= 0 THEN num \div den ELSE -((-num) \div den))

\* _invert: np.fromstring(data, np.int32) raises unless the size is a multiple of 4
invert_ok(data) == Len(data) % 4 = 0

\* _invert: one's complement of every 32-bit word, returned as bytes; the
\* complement of a word is the complement of each of its bytes
invert(data) == [i \in 1..Len(data) |-> (ByteMod - 1) - data[i]]

\* numpy broadcasting of two 1-d arrays of n1 and n2 elements
Broadcastable(n1, n2) == n1 = n2 \/ n1 = 1 \/ n2 = 1
BroadcastLen(n1, n2) == IF n1 = 1 THEN n2 ELSE n1
At(s, i) == IF Len(s) = 1 THEN s[1] ELSE s[i]

\* _mix_samples raises when a sample is no whole number of int16 values or
\* the two arrays cannot be broadcast together
mix_samples_ok(sample_1, sample_2) ==
    /\ FromStringOk(sample_1, 2)
    /\ FromStringOk(sample_2, 2)
    /\ Broadcastable(Len(sample_1) \div 2, Len(sample_2) \div 2)

\* the int16 array intwave_mix of _mix_samples
mix_values(s1, s2, q) ==
    LET r == get_ratios(q)
    IN  [i \in 1..BroadcastLen(Len(s1), Len(s2)) |->
            astype_int16(At(s1, i) * r[1] + At(s2, i) * r[2], 2 * RatioDen)]

\* _mix_samples: both bytestrings read as int16, mixed, returned as bytes
mix_samples(sample_1, sample_2, q) ==
    ToBytes16(mix_values(FromString(sample_1, 2), FromString(sample_2, 2), q))

----------------------------------------------------------------------------
(* wave streams over a file descriptor d *)

FrameSize(d) == d.nchannels * d.sampwidth
NFrames(d) == Len(d.data) \div FrameSize(d)

\* Wave_read.readframes(n) with pos bytes of the data chunk consumed: the
\* next n * framesize bytes, clipped to the end of the data (a trailing
\* partial frame is returned too)
ReadFrames(d, pos, n) ==
    IF n = 0 THEN <<>>
    ELSE SubSeq(d.data, pos + 1, Min(pos + n * FrameSize(d), Len(d.data)))

\* the bytes of the data chunk consumed after readframes(n)
ReadPos(d, pos, n) ==
    IF n = 0 THEN pos ELSE Min(pos + n * FrameSize(d), Len(d.data))

Streams == {"main", "aux", "output", "wf_1", "wf_2", "source"}
NoStreams == [s \in Streams |-> 0]
NoOutput == [created |-> FALSE, params |-> None, writes |-> <<>>]
NoLocals == [original |-> <<>>, aux |-> <<>>, diff |-> 0]

----------------------------------------------------------------------------
(* Inputs.  An optional value is <<>> (Python's None) or <<v>>.            *)

Wav(type, ok, ch, w, rate, data) ==
    [audio_type |-> type, path_ok |-> ok, nchannels |-> ch, sampwidth |-> w,
     framerate |-> rate, data |-> data]

Meta(d) == [framerate |-> d.framerate, sampwidth |-> d.sampwidth,
            nchannels |-> d.nchannels]

\* n bytes of test data, every position different from its neighbours
Data(n, seed) == [i \in 1..n |-> (seed * i + 3 * i * i) % ByteMod]

\* the canceller's input files: 16-bit stereo files of every length up to
\* MaxFrames and one whose data ends in half a frame, one 16-bit mono and one
\* 8-bit mono file (other frame sizes and another frame rate), a file that is
\* no WAV file, a file that cannot be opened
NCDescs ==
    {Wav(WAV, TRUE, 2, 2, 8000, Data(4 * n, 7 + 10 * n)) : n \in 0..MaxFrames}
    \cup {Wav(WAV, TRUE, 2, 2, 8000, Data(6, 9)),
          Wav(WAV, TRUE, 1, 2, 16000, Data(2 * MaxFrames, 5)),
          Wav(WAV, TRUE, 1, 1, 8000, Data(MaxFrames + 1, 4)),
          Wav(MP3, TRUE, 1, 2, 16000, Data(8, 1)),
          Wav(WAV, FALSE, 2, 2, 8000, Data(8, 1))}

\* constructor arguments: format fields left out, given as 0, or given
Config(r, c, w) == [output_framerate |-> r, channels |-> c, sample_width |-> w]
NCConfigs ==
    {Config(<<>>, <<>>, <<>>), Config(<<44100>>, <<1>>, <<2>>),
     Config(<<44100>>, <<>>, <<>>), Config(<<>>, <<0>>, <<2>>)}

\* <<ratio numerator, chunk_size>>
NCParams == {<<RatioDen, 1>>, <<2 * RatioDen - 1, 2>>}

NoCanceller ==
    [output_framerate |-> <<>>, channels |-> <<>>, sample_width |-> <<>>,
     ratio |-> RatioDen, chunk_size |-> 1]

NoCall == [op |-> "none"]

\* Python truthiness of an optional number: None and 0 are falsy
Truthy(x) == x # <<>> /\ x[1] # 0

Inc(f, s) == [f EXCEPT ![s] = @ + 1]

ErrMainType == "TypeError: Type of main audio file should be WAV"
ErrAuxType == "TypeError: Type of auxiliary audio file should be WAV"
ErrOpen == "OSError: wave.open failed"
ErrElementSize == "ValueError: string size must be a multiple of element size"
ErrBroadcast == "ValueError: operands could not be broadcast together"

Fail(e) == /\ err' = e
           /\ pc' = "failed"

----------------------------------------------------------------------------
(* AdaptiveNoiseCanceller.process(main_audio, aux_audio, output_file)      *)

NCCall ==
    /\ obj = "canceller"
    /\ pc = "idle"
    /\ \E main_audio \in NCDescs, aux_audio \in NCDescs, out_ok \in BOOLEAN :
          /\ call' = [op |-> "nc_process", a1 |-> main_audio, a2 |-> aux_audio,
                      output_file |-> "out.wav", out_ok |-> out_ok]
          /\ first_call' = IF first_call = <<>> THEN <<Meta(main_audio)>>
                           ELSE first_call
    /\ pc' = "nc_validate"
    /\ opens' = NoStreams /\ closes' = NoStreams /\ rpos' = NoStreams
    /\ nreads' = 0 /\ locals' = NoLocals /\ out' = NoOutput
    /\ err' = None /\ ret' = <<>>
    /\ UNCHANGED <<obj, nc, chunksize, configured, first_res, mix_in, mix_out>>

\* a faulty process: the main stream is opened before the types are checked
NCValidate_open_first ==
    /\ pc = "nc_validate"
    /\ opens' = Inc(opens, "main")
    /\ IF call.a1.audio_type # WAV THEN Fail(ErrMainType)
       ELSE IF call.a2.audio_type # WAV THEN Fail(ErrAuxType)
       ELSE pc' = "nc_open_aux" /\ err' = err
    /\ UNCHANGED <<obj, nc, chunksize, call, closes, rpos, nreads, locals, out,
                   ret, configured, first_call, first_res, mix_in, mix_out>>

\* lines 36-44: the two type checks
NCValidate ==
    /\ pc = "nc_validate"
    /\ IF call.a1.audio_type # WAV THEN Fail(ErrMainType)
       ELSE IF call.a2.audio_type # WAV THEN Fail(ErrAuxType)
       ELSE pc' = "nc_open_main" /\ err' = err
    /\ UNCHANGED <<obj, nc, chunksize, call, opens, closes, rpos, nreads, locals,
                   out, ret, configured, first_call, first_res, mix_in, mix_out>>

\* line 46: main_wf = wave.open(main_audio.path, 'r')
NCOpenMain ==
    /\ pc = "nc_open_main"
    /\ IF call.a1.path_ok
       THEN opens' = Inc(opens, "main") /\ pc' = "nc_open_aux" /\ err' = err
       ELSE Fail(ErrOpen) /\ opens' = opens
    /\ UNCHANGED <<obj, nc, chunksize, call, closes, rpos, nreads, locals, out,
                   ret, configured, first_call, first_res, mix_in, mix_out>>

\* line 47: aux_wf = wave.open(aux_audio.path, 'r')
NCOpenAux ==
    /\ pc = "nc_open_aux"
    /\ IF call.a2.path_ok
       THEN opens' = Inc(opens, "aux") /\ pc' = "nc_resolve" /\ err' = err
       ELSE Fail(ErrOpen) /\ opens' = opens
    /\ UNCHANGED <<obj, nc, chunksize, call, closes, rpos, nreads, locals, out,
                   ret, configured, first_call, first_res, mix_in, mix_out>>

\* a faulty default: the field is taken from the main stream on every call
Resolved_always(field, value) == <<value>>

\* `if not self.x: self.x = main_wf.getx()`
Resolved(field, value) == IF Truthy(field) THEN field ELSE <<value>>

\* lines 49-56: defaults from the main stream
NCResolve ==
    /\ pc = "nc_resolve"
    /\ nc' = [nc EXCEPT
                !.output_framerate = Resolved(@, call.a1.framerate),
                !.sample_width = Resolved(@, call.a1.sampwidth),
                !.channels = Resolved(@, call.a1.nchannels)]
    /\ first_res' = IF first_res = <<>> THEN <<Meta(call.a1)>> ELSE first_res
    /\ pc' = "nc_open_out"
    /\ UNCHANGED <<obj, chunksize, call, opens, closes, rpos, nreads, locals, out,
                   err, ret, configured, first_call, mix_in, mix_out>>

\* lines 58, 91-103: output_wf = self._get_output_waveform(output_file)
NCOpenOut ==
    /\ pc = "nc_open_out"
    /\ IF call.out_ok
       THEN /\ opens' = Inc(opens, "output")
            /\ out' = [created |-> TRUE,
                       params |-> [nchannels |-> nc.channels[1],
                                   sampwidth |-> nc.sample_width[1],
                                   framerate |-> nc.output_framerate[1]],
                       writes |-> <<>>]
            /\ pc' = "nc_first_read" /\ err' = err
       ELSE Fail(ErrOpen) /\ opens' = opens /\ out' = out
    /\ UNCHANGED <<obj, nc, chunksize, call, closes, rpos, nreads, locals, ret,
                   configured, first_call, first_res, mix_in, mix_out>>

\* the two readframes calls of lines 60-61 and 68-69
NCRead ==
    /\ locals' = [locals EXCEPT
                    !.original = ReadFrames(call.a1, rpos["main"], nc.chunk_size),
                    !.aux = ReadFrames(call.a2, rpos["aux"], nc.chunk_size)]
    /\ rpos' = [rpos EXCEPT
                    !["main"] = ReadPos(call.a1, @, nc.chunk_size),
                    !["aux"] = ReadPos(call.a2, @, nc.chunk_size)]
    /\ nreads' = nreads + 2

\* lines 60-61
NCFirstRead ==
    /\ pc = "nc_first_read"
    /\ NCRead
    /\ pc' = "nc_loop"
    /\ UNCHANGED <<obj, nc, chunksize, call, opens, closes, out, err, ret,
                   configured, first_call, first_res, mix_in, mix_out>>

\* a faulty loop condition: runs while either stream still has data
loop_continues_either(original, aux) == original # <<>> \/ aux # <<>>

\* line 63: while original != b'' and aux != b''
loop_continues(original, aux) == original # <<>> /\ aux # <<>>

\* lines 64-69: one iteration of the loop
NCLoopBody ==
    /\ pc = "nc_loop"
    /\ loop_continues(locals.original, locals.aux)
    /\ IF ~invert_ok(locals.aux)
       THEN Fail(ErrElementSize) /\ UNCHANGED <<out, locals, rpos, nreads>>
       ELSE IF ~FromStringOk(locals.original, 2)
       THEN Fail(ErrElementSize) /\ UNCHANGED <<out, locals, rpos, nreads>>
       ELSE IF ~mix_samples_ok(locals.original, invert(locals.aux))
       THEN Fail(ErrBroadcast) /\ UNCHANGED <<out, locals, rpos, nreads>>
       ELSE /\ out' = [out EXCEPT !.writes =
                         Append(@, mix_samples(locals.original,
                                               invert(locals.aux), nc.ratio))]
            /\ NCRead
            /\ UNCHANGED <<pc, err>>
    /\ UNCHANGED <<obj, nc, chunksize, call, opens, closes, ret, configured,
                   first_call, first_res, mix_in, mix_out>>

\* line 63, the loop condition false
NCLoopExit ==
    /\ pc = "nc_loop"
    /\ ~loop_continues(locals.original, locals.aux)
    /\ pc' = "nc_close"
    /\ UNCHANGED <<obj, nc, chunksize, call, opens, closes, rpos, nreads, locals,
                   out, err, ret, configured, first_call, first_res, mix_in,
                   mix_out>>

\* utils.descriptors.AudioFileDescriptor(path): the descriptor of a file
AudioFileDescriptor(path) == [path |-> path]

\* lines 71-75: the three streams closed, the output's descriptor returned
NCClose ==
    /\ pc = "nc_close"
    /\ closes' = Inc(Inc(Inc(closes, "output"), "main"), "aux")
    /\ ret' = <<AudioFileDescriptor(call.output_file)>>
    /\ pc' = "done"
    /\ UNCHANGED <<obj, nc, chunksize, call, opens, rpos, nreads, locals, out,
                   err, configured, first_call, first_res, mix_in, mix_out>>

\* the method has returned or raised: the caller is back in control
Return ==
    /\ pc \in {"done", "failed"}
    /\ pc' = "idle"
    /\ call' = NoCall
    /\ opens' = NoStreams /\ closes' = NoStreams /\ rpos' = NoStreams
    /\ nreads' = 0 /\ locals' = NoLocals /\ out' = NoOutput
    /\ err' = None /\ ret' = <<>>
    /\ UNCHANGED <<obj, nc, chunksize, configured, first_call, first_res,
                   mix_in, mix_out>>

NCNext ==
    \/ NCCall \/ NCValidate \/ NCOpenMain \/ NCOpenAux \/ NCResolve
    \/ NCOpenOut \/ NCFirstRead \/ NCLoopBody \/ NCLoopExit \/ NCClose

----------------------------------------------------------------------------
(* CorrelationSynchronizer: inputs *)

\* the bytes of samples of w bytes each (w in 1..2)
Encode(s, w) ==
    IF w = 1 THEN [i \in 1..Len(s) |-> (s[i] + ByteMod) % ByteMod]
    ELSE ToBytes16(s)

\* n small samples of both signs
SmallSamples(n) == [i \in 1..n |-> ((i * i) % 5) - 2]

\* every sequence of n values 0 and 1
Bits(n) == [1..n -> {0, 1}]

\* files of every type and format, two frames each
FormatDescs ==
    {Wav(t, TRUE, c, w, r, Encode(SmallSamples(2 * c), w)) :
        t \in {WAV, MP3}, c \in {1, 2}, w \in {1, 2}, r \in {8000, 16000}}

\* 16-bit mono files of every content up to MaxSamples samples
MonoDescs ==
    {Wav(WAV, TRUE, 1, 2, 8000, Encode(s, 2)) :
        s \in UNION {Bits(n) : n \in 0..MaxSamples}}

\* 8-bit stereo files of one and two frames
StereoDescs ==
    {Wav(WAV, TRUE, 2, 1, 8000, s) : s \in Bits(2) \cup Bits(4)}

\* a WAV file that cannot be opened
MissingDesc == Wav(WAV, FALSE, 1, 2, 8000, <<>>)

\* 16-bit mono files whose data ends in half a frame
PartialDescs ==
    {Wav(WAV, TRUE, 1, 2, 8000, <<1, 0, 0, 0, 1>>),
     Wav(WAV, TRUE, 1, 2, 8000, <<0, 0, 1>>)}

SyncPairs ==
    (FormatDescs \X FormatDescs) \cup (MonoDescs \X MonoDescs)
    \cup (StereoDescs \X StereoDescs)
    \cup ((MonoDescs \cup {MissingDesc}) \X {MissingDesc})
    \cup ({MissingDesc} \X MonoDescs)
    \cup (PartialDescs \X MonoDescs) \cup (MonoDescs \X PartialDescs)

SyncChunkSizes == {2, MaxSamples - 1}

SyncOps == {"process", "get_seconds_diff", "get_frames_diff"}

ErrOnlyWav == "TypeError: Only WAV files supported"
ErrChannels == "TypeError: Audio files must be with the same number of channels"
ErrFramerate == "TypeError: Audio files must be with the same framerate"
ErrArgmaxEmpty == "ValueError: attempt to get argmax of an empty sequence"

----------------------------------------------------------------------------
(* CorrelationSynchronizer: pure helpers *)

RECURSIVE SumTo(_, _)
SumTo(x, n) == IF n = 0 THEN 0 ELSE x[n] + SumTo(x, n - 1)
Sum(x) == SumTo(x, Len(x))

\* AudioFileDescriptor.get_sample_size(): the numpy dtype of one sample,
\* given here by its item size in bytes
get_sample_size(d) == d.sampwidth

\* utils.normalize_signal: the mean removed; the positive rescaling that
\* follows is left as the factor Len(x), which moves no maximum
normalize_signal(x) == [i \in 1..Len(x) |-> Len(x) * x[i] - Sum(x)]

\* utils.frames_to_seconds: frames / framerate, kept as the pair
frames_to_seconds(frames, framerate) == <<frames, framerate>>

\* scipy.signal.correlate(x, y), mode 'full': element k (from 1) is
\* sum over i of x[i] * y[i - k + Len(y)]
RECURSIVE CorrAt(_, _, _, _)
CorrAt(x, y, k, i) ==
    IF i = 0 THEN 0
    ELSE LET j == i - k + Len(y)
         IN  (IF j >= 1 /\ j <= Len(y) THEN x[i] * y[j] ELSE 0)
             + CorrAt(x, y, k, i - 1)
correlate(x, y) == [k \in 1..(Len(x) + Len(y) - 1) |-> CorrAt(x, y, k, Len(x))]

\* np.argmax: the first index (from 0) of the largest element
argmax(z) ==
    (CHOOSE i \in 1..Len(z) :
        /\ \A j \in 1..Len(z) : z[j] <= z[i]
        /\ \A j \in 1..(i - 1) : z[j] < z[i]) - 1

\* lines 59-73 of get_frames_diff on the two chunks read
frames_diff(frames_1, frames_2, w) ==
    LET f1 == normalize_signal(FromString(frames_1, w))
        f2 == normalize_signal(FromString(frames_2, w))
    IN  argmax(correlate(f1, f2)) - Len(f2)

\* _check_compability: the error raised, or None
check_compability(audio_1, audio_2) ==
    IF audio_1.audio_type # WAV \/ audio_2.audio_type # WAV THEN ErrOnlyWav
    ELSE IF audio_1.nchannels # audio_2.nchannels THEN ErrChannels
    ELSE IF audio_1.framerate # audio_2.framerate THEN ErrFramerate
    ELSE IF audio_1.sampwidth # audio_2.sampwidth THEN ErrFramerate
    ELSE None

----------------------------------------------------------------------------
(* CorrelationSynchronizer: process, get_seconds_diff, get_frames_diff *)

SyncCall ==
    /\ obj = "synchronizer"
    /\ pc = "idle"
    /\ \E op \in SyncOps, pair \in SyncPairs, out_ok \in BOOLEAN :
          /\ op # "process" => out_ok
          /\ call' = [op |-> op, a1 |-> pair[1], a2 |-> pair[2], out_ok |-> out_ok]
          /\ pc' = IF op = "get_frames_diff" THEN "gfd_check" ELSE "check"
    /\ UNCHANGED <<obj, nc, chunksize, opens, closes, rpos, nreads, locals, out,
                   err, ret, configured, first_call, first_res, mix_in, mix_out>>

\* lines 17, 45 and 51: self._check_compability(audio_1, audio_2)
SyncCheck ==
    /\ pc \in {"check", "gfd_check"}
    /\ LET e == check_compability(call.a1, call.a2)
       IN  IF e # None THEN Fail(e)
           ELSE /\ pc' = IF pc = "check" THEN "gfd_check" ELSE "gfd_open_1"
                /\ err' = err
    /\ UNCHANGED <<obj, nc, chunksize, call, opens, closes, rpos, nreads, locals,
                   out, ret, configured, first_call, first_res, mix_in, mix_out>>

\* line 53: wf_1 = wave.open(audio_1.path, 'r')
GfdOpen1 ==
    /\ pc = "gfd_open_1"
    /\ IF call.a1.path_ok
       THEN opens' = Inc(opens, "wf_1") /\ pc' = "gfd_open_2" /\ err' = err
       ELSE Fail(ErrOpen) /\ opens' = opens
    /\ UNCHANGED <<obj, nc, chunksize, call, closes, rpos, nreads, locals, out,
                   ret, configured, first_call, first_res, mix_in, mix_out>>

\* line 54: wf_2 = wave.open(audio_2.path, 'r')
GfdOpen2 ==
    /\ pc = "gfd_open_2"
    /\ IF call.a2.path_ok
       THEN opens' = Inc(opens, "wf_2") /\ pc' = "gfd_compute" /\ err' = err
       ELSE Fail(ErrOpen) /\ opens' = opens
    /\ UNCHANGED <<obj, nc, chunksize, call, closes, rpos, nreads, locals, out,
                   ret, configured, first_call, first_res, mix_in, mix_out>>

\* lines 56-73: both first chunks read, the lag computed, both streams closed;
\* np.fromstring raises on a chunk that is no whole number of samples and
\* np.argmax raises on the empty correlation of an empty chunk
GfdCompute ==
    /\ pc = "gfd_compute"
    /\ LET frames_1 == ReadFrames(call.a1, 0, chunksize)
           frames_2 == ReadFrames(call.a2, 0, chunksize)
           lag == frames_diff(frames_1, frames_2, get_sample_size(call.a1))
       IN  /\ rpos' = [rpos EXCEPT !["wf_1"] = ReadPos(call.a1, 0, chunksize),
                                   !["wf_2"] = ReadPos(call.a2, 0, chunksize)]
           /\ nreads' = nreads + 2
           /\ IF ~FromStringOk(frames_1, get_sample_size(call.a1))
                 \/ ~FromStringOk(frames_2, get_sample_size(call.a1))
              THEN Fail(ErrElementSize) /\ UNCHANGED <<closes, ret, locals>>
              ELSE IF frames_1 = <<>> \/ frames_2 = <<>>
              THEN Fail(ErrArgmaxEmpty) /\ UNCHANGED <<closes, ret, locals>>
              ELSE /\ closes' = Inc(Inc(closes, "wf_1"), "wf_2")
                   /\ err' = err
                   /\ IF call.op = "get_frames_diff"
                      THEN pc' = "done" /\ ret' = <<lag>> /\ locals' = locals
                      ELSE IF call.op = "get_seconds_diff"
                      THEN /\ pc' = "done" /\ locals' = locals
                           /\ ret' = frames_to_seconds(lag, call.a1.framerate)
                      ELSE /\ pc' = "p_open_source" /\ ret' = ret
                           /\ locals' = [locals EXCEPT !.diff = lag]
    /\ UNCHANGED <<obj, nc, chunksize, call, opens, out, configured, first_call,
                   first_res, mix_in, mix_out>>

\* lines 21-24: the stream process copies from
Source == IF locals.diff <= 0 THEN call.a1 ELSE call.a2

\* lines 21-24: source = wave.open(..., 'r')
POpenSource ==
    /\ pc = "p_open_source"
    /\ IF Source.path_ok
       THEN opens' = Inc(opens, "source") /\ pc' = "p_open_output" /\ err' = err
       ELSE Fail(ErrOpen) /\ opens' = opens
    /\ UNCHANGED <<obj, nc, chunksize, call, closes, rpos, nreads, locals, out,
                   ret, configured, first_call, first_res, mix_in, mix_out>>

\* utils.get_output_waveform(path, nchannels, sampwidth, framerate)
get_output_waveform(nchannels, sampwidth, framerate) ==
    [created |-> TRUE,
     params |-> [nchannels |-> nchannels, sampwidth |-> sampwidth,
                 framerate |-> framerate],
     writes |-> <<>>]

\* lines 26-29
POpenOutput ==
    /\ pc = "p_open_output"
    /\ IF call.out_ok
       THEN /\ opens' = Inc(opens, "output")
            /\ out' = get_output_waveform(Source.nchannels, Source.sampwidth,
                                          Source.framerate)
            /\ pc' = "p_first" /\ err' = err
       ELSE Fail(ErrOpen) /\ opens' = opens /\ out' = out
    /\ UNCHANGED <<obj, nc, chunksize, call, closes, rpos, nreads, locals, ret,
                   configured, first_call, first_res, mix_in, mix_out>>

\* lines 32-33: abs(diff) zero elements of the sample dtype, as bytes
silence(diff, audio_1) == ZeroBytes(Abs(diff), get_sample_size(audio_1))

\* lines 31-35: the first chunk is read, then the silence is written
PFirst ==
    /\ pc = "p_first"
    /\ locals' = [locals EXCEPT !.original = ReadFrames(Source, 0, chunksize)]
    /\ rpos' = [rpos EXCEPT !["source"] = ReadPos(Source, 0, chunksize)]
    /\ nreads' = nreads + 1
    /\ out' = [out EXCEPT !.writes = Append(@, silence(locals.diff, call.a1))]
    /\ pc' = "p_loop"
    /\ UNCHANGED <<obj, nc, chunksize, call, opens, closes, err, ret, configured,
                   first_call, first_res, mix_in, mix_out>>

\* lines 37-39: one iteration of the copy loop
PLoopBody ==
    /\ pc = "p_loop"
    /\ locals.original # <<>>
    /\ out' = [out EXCEPT !.writes = Append(@, locals.original)]
    /\ locals' = [locals EXCEPT
                    !.original = ReadFrames(Source, rpos["source"], chunksize)]
    /\ rpos' = [rpos EXCEPT !["source"] = ReadPos(Source, @, chunksize)]
    /\ nreads' = nreads + 1
    /\ UNCHANGED <<obj, nc, chunksize, call, pc, opens, closes, err, ret,
                   configured, first_call, first_res, mix_in, mix_out>>

\* line 37, the loop condition false
PLoopExit ==
    /\ pc = "p_loop"
    /\ locals.original = <<>>
    /\ pc' = "p_close"
    /\ UNCHANGED <<obj, nc, chunksize, call, opens, closes, rpos, nreads, locals,
                   out, err, ret, configured, first_call, first_res, mix_in,
                   mix_out>>

\* lines 41-42
PClose ==
    /\ pc = "p_close"
    /\ closes' = Inc(Inc(closes, "source"), "output")
    /\ pc' = "done"
    /\ UNCHANGED <<obj, nc, chunksize, call, opens, rpos, nreads, locals, out,
                   err, ret, configured, first_call, first_res, mix_in, mix_out>>

SyncNext ==
    \/ SyncCall \/ SyncCheck \/ GfdOpen1 \/ GfdOpen2 \/ GfdCompute
    \/ POpenSource \/ POpenOutput \/ PFirst \/ PLoopBody \/ PLoopExit \/ PClose

----------------------------------------------------------------------------
(* _mix_samples evaluated on its own *)

\* 16-bit sample values: the extremes, and small values of both signs
MixSampleVals == {-32768, -32767, -3, -2, -1, 0, 1, 2, 3, 32767}

NoMix == [sample_1 |-> <<>>, sample_2 |-> <<>>]

\* self._mix_samples(sample_1, sample_2)
MixSamples ==
    /\ obj = "mixer"
    /\ mix_out = <<>>
    /\ mix_out' = <<mix_samples(mix_in.sample_1, mix_in.sample_2, nc.ratio)>>
    /\ UNCHANGED <<obj, nc, chunksize, call, pc, opens, closes, rpos, nreads,
                   locals, out, err, ret, configured, first_call, first_res,
                   mix_in>>

----------------------------------------------------------------------------
IdleCall ==
    /\ call = NoCall
    /\ pc = "idle"
    /\ opens = NoStreams /\ closes = NoStreams /\ rpos = NoStreams
    /\ nreads = 0 /\ locals = NoLocals /\ out = NoOutput
    /\ err = None /\ ret = <<>>
    /\ first_call = <<>> /\ first_res = <<>>

\* after AdaptiveNoiseCanceller(...) or CorrelationSynchronizer(...)
Init ==
    /\ obj \in {"canceller", "synchronizer"}
    /\ IF obj = "canceller"
       THEN /\ \E c \in NCConfigs, p \in NCParams :
                  /\ nc = [output_framerate |-> c.output_framerate,
                           channels |-> c.channels,
                           sample_width |-> c.sample_width,
                           ratio |-> p[1], chunk_size |-> p[2]]
                  /\ configured = c
            /\ chunksize = 1
       ELSE /\ nc = NoCanceller
            /\ configured = Config(<<>>, <<>>, <<>>)
            /\ chunksize \in SyncChunkSizes
    /\ IdleCall
    /\ mix_in = NoMix /\ mix_out = <<>>

Next == NCNext \/ SyncNext \/ Return

Spec == Init /\ [][Next]_vars

\* a canceller with every ratio, and two samples to mix
InitMix ==
    /\ obj = "mixer"
    /\ \E q \in 0..(2 * RatioDen) : nc = [NoCanceller EXCEPT !.ratio = q]
    /\ configured = Config(<<>>, <<>>, <<>>)
    /\ chunksize = 1
    /\ IdleCall
    /\ \E s1 \in [1..MixLen -> MixSampleVals], s2 \in [1..MixLen -> MixSampleVals] :
          mix_in = [sample_1 |-> ToBytes16(s1), sample_2 |-> ToBytes16(s2)]
    /\ mix_out = <<>>

NextMix == MixSamples

SpecMix == InitMix /\ [][NextMix]_vars

----------------------------------------------------------------------------
(* Properties *)

Terminal == pc \in {"done", "failed"}
IsNC == obj = "canceller" /\ call # NoCall
IsSync == obj = "synchronizer" /\ call # NoCall

\* C1: every stream a call opens is closed exactly once on every exit path,
\* successful or failed.
C1_StreamsClosedOnEveryExit ==
    Terminal => \A s \in Streams : opens[s] <= 1 /\ closes[s] = opens[s]

\* a call that failed after opening a stream
C1_FailedAfterOpen ==
    pc = "failed" /\ \E s \in Streams : opens[s] = 1

\* the byte length of one full chunk of the canceller read from d
ChunkBytes(d) == nc.chunk_size * FrameSize(d)
\* the number of whole chunks d holds
NChunks(d) == Len(d.data) \div ChunkBytes(d)
WholeChunks(d) == Len(d.data) % ChunkBytes(d) = 0
\* the k-th chunk of d, k from 1
Chunk(d, k) == ReadFrames(d, (k - 1) * ChunkBytes(d), nc.chunk_size)
\* the mix of the k-th main chunk and the k-th aux chunk
MixedChunk(k) == mix_samples(Chunk(call.a1, k), invert(Chunk(call.a2, k)), nc.ratio)
MinChunks == Min(NChunks(call.a1), NChunks(call.a2))

\* two readable WAV inputs of whole chunks and an output that can be opened
C2_Inputs ==
    /\ IsNC
    /\ call.a1.audio_type = WAV /\ call.a2.audio_type = WAV
    /\ call.a1.path_ok /\ call.a2.path_ok /\ call.out_ok
    /\ WholeChunks(call.a1) /\ WholeChunks(call.a2)

\* the chunks of both inputs have one byte length, a multiple of 4
C2_Aligned ==
    /\ ChunkBytes(call.a1) = ChunkBytes(call.a2)
    /\ ChunkBytes(call.a1) % 4 = 0

\* what process has written and read so far, and how it ends
C2_Outcome ==
    /\ pc # "failed" /\ err = None
    /\ Len(out.writes) <= MinChunks
    /\ \A k \in 1..Len(out.writes) : out.writes[k] = MixedChunk(k)
    /\ pc \in {"nc_close", "done"} =>
          /\ Len(out.writes) = MinChunks
          /\ nreads = 2 * (MinChunks + 1)

\* C2 as claimed: for any two WAV inputs of N and M chunks process ends without
\* error after writing exactly min(N, M) mixed chunks, the k-th write being the
\* mix of the k-th chunks.
C2_Original == C2_Inputs => C2_Outcome

\* C2, amended: the same for inputs whose chunks have one byte length that is
\* a multiple of 4 (what _invert's 32-bit view and the int16 mix need).
C2_MinChunksWritten == (C2_Inputs /\ C2_Aligned) => C2_Outcome

\* a finished call on inputs of different lengths that wrote two chunks
C2_Witness ==
    /\ C2_Inputs /\ C2_Aligned /\ pc = "done"
    /\ NChunks(call.a1) # NChunks(call.a2)
    /\ Len(out.writes) >= 2
    /\ out.writes[1] # out.writes[2]

ValidationErrors ==
    {ErrMainType, ErrAuxType, ErrOnlyWav, ErrChannels, ErrFramerate}

\* C3: a call rejected by validation has opened no stream, read no frame and
\* neither created nor written the output.
C3_ValidationPrecedesIO ==
    err \in ValidationErrors =>
        /\ \A s \in Streams : opens[s] = 0 /\ rpos[s] = 0
        /\ nreads = 0
        /\ ~out.created /\ out.writes = <<>>

\* a synchronizer call rejected for its frame rates, after a type check passed
C3_Witness ==
    /\ pc = "failed" /\ err = ErrFramerate
    /\ call.a1.framerate # call.a2.framerate

\* the property an error message of _check_compability names
NamedProperty(e) ==
    IF e = ErrOnlyWav THEN "type"
    ELSE IF e = ErrChannels THEN "channels"
    ELSE IF e = ErrFramerate THEN "framerate"
    ELSE "none"

\* the first property that differs, in the order type, channels, frame rate,
\* sample width
FirstMismatch(audio_1, audio_2) ==
    IF audio_1.audio_type # WAV \/ audio_2.audio_type # WAV THEN "type"
    ELSE IF audio_1.nchannels # audio_2.nchannels THEN "channels"
    ELSE IF audio_1.framerate # audio_2.framerate THEN "framerate"
    ELSE IF audio_1.sampwidth # audio_2.sampwidth THEN "sample width"
    ELSE "none"

\* C4: the compatibility check fails with an error naming the first property
\* that mismatches (type, channels, frame rate, sample width) and raises
\* nothing when all four agree.
C4_ErrorNamesMismatch ==
    (IsSync /\ pc \notin {"idle", "check"} /\ (pc = "gfd_check" => call.op # "get_frames_diff"))
        => NamedProperty(IF pc = "failed" THEN err ELSE None)
              = FirstMismatch(call.a1, call.a2)

\* the samples of the first chunk of d
FirstSamples(d) ==
    FromString(ReadFrames(d, 0, chunksize), get_sample_size(d))
NonConstant(x) == \E i \in 1..Len(x), j \in 1..Len(x) : x[i] # x[j]

\* C5: get_frames_diff(A, A) returns 0 for every non-constant first chunk.
C5_SelfLagZero ==
    (IsSync /\ pc = "done" /\ call.op = "get_frames_diff"
        /\ call.a1 = call.a2 /\ NonConstant(FirstSamples(call.a1)))
        => ret = <<0>>

\* the correlation of the two first chunks has one largest element
UniqueMax(z) == Cardinality({i \in 1..Len(z) : \A j \in 1..Len(z) : z[j] <= z[i]}) = 1
FirstCorrelation ==
    correlate(normalize_signal(FirstSamples(call.a1)),
              normalize_signal(FirstSamples(call.a2)))

\* C6: for first chunks of equal length whose correlation has a unique
\* maximum, get_frames_diff(A, B) = -get_frames_diff(B, A).
C6_Antisymmetry ==
    (IsSync /\ pc = "done" /\ call.op = "get_frames_diff"
        /\ Len(FirstSamples(call.a1)) = Len(FirstSamples(call.a2))
        /\ UniqueMax(FirstCorrelation))
        => ret[1] = -frames_diff(ReadFrames(call.a2, 0, chunksize),
                                 ReadFrames(call.a1, 0, chunksize),
                                 get_sample_size(call.a2))

RECURSIVE Concat(_)
Concat(ws) == IF ws = <<>> THEN <<>> ELSE Head(ws) \o Concat(Tail(ws))

\* C7: process copies from stream 1 when the lag is <= 0 and from stream 2
\* otherwise, and its output is abs(lag) frames of zeros in every channel
\* followed by every frame of that source, abs(lag) + sourceLength frames.
C7_SilencePadding ==
    (IsSync /\ pc = "done" /\ call.op = "process") =>
        LET src == IF locals.diff <= 0 THEN call.a1 ELSE call.a2
            written == Concat(out.writes)
        IN  /\ out.params = Meta(src)
            /\ Len(written) = (Abs(locals.diff) + NFrames(src)) * FrameSize(src)
            /\ written = ZeroBytes(Abs(locals.diff), FrameSize(src)) \o src.data

\* C8: at ratio 2 the gains are 1 and 0 and the mix is the main chunk, sample
\* for sample, whatever the inverted auxiliary chunk holds.
C8_RatioTwoKeepsMain ==
    (obj = "mixer" /\ nc.ratio = 2 * RatioDen) =>
        /\ get_ratios(nc.ratio) = <<2 * RatioDen, 0>>
        /\ mix_out # <<>> => mix_out[1] = mix_in.sample_1

\* a mix at ratio 2 of two different chunks
C8_Witness ==
    /\ obj = "mixer" /\ nc.ratio = 2 * RatioDen /\ mix_out # <<>>
    /\ mix_in.sample_1 # mix_in.sample_2

Fields == {"output_framerate", "channels", "sample_width"}
MetaOf(m, f) ==
    IF f = "output_framerate" THEN m.framerate
    ELSE IF f = "channels" THEN m.nchannels ELSE m.sampwidth
ParamOf(f) == MetaOf(out.params, f)

\* C9 as claimed: a configured field is never overwritten; an unconfigured one
\* is taken from the main stream of the first process call and stays, so every
\* process call opens its output with the first call's values.
C9_Original ==
    obj = "canceller" => \A f \in Fields :
        /\ configured[f] # <<>> => nc[f] = configured[f]
        /\ (out.created /\ configured[f] = <<>>)
              => ParamOf(f) = MetaOf(first_call[1], f)
        /\ (out.created /\ configured[f] # <<>>) => ParamOf(f) = configured[f][1]

\* C9, amended: a field configured to a non-zero value is never overwritten; a
\* field left out or given as 0 is taken from the main stream of the first
\* process call that passes the type checks and opens both inputs, and stays;
\* every process call opens its output with these values.
C9_StickyDefaults ==
    obj = "canceller" => \A f \in Fields :
        /\ Truthy(configured[f]) => nc[f] = configured[f]
        /\ ~Truthy(configured[f]) =>
              nc[f] = IF first_res = <<>> THEN configured[f]
                      ELSE <<MetaOf(first_res[1], f)>>
        /\ out.created => ParamOf(f) = nc[f][1]

\* a later call opens its output although its main stream has other metadata
\* than the call that resolved the defaults
C9_Witness ==
    /\ obj = "canceller" /\ out.created
    /\ ~Truthy(configured.output_framerate)
    /\ call.a1.framerate # first_res[1].framerate
    /\ call.a1.nchannels # first_res[1].nchannels

\* the exact value num / den of one mixed sample before the cast
MixNum(i) ==
    LET s1 == FromString(mix_in.sample_1, 2)
        s2 == FromString(mix_in.sample_2, 2)
    IN  s1[i] * nc.ratio + s2[i] * (2 * RatioDen - nc.ratio)
MixDen == 2 * RatioDen

\* num / den rounded to the nearest integer, halves to the even one
RoundHalfEven(num, den) ==
    LET fl == num \div den
        r2 == 2 * (num % den)
    IN  IF r2 < den THEN fl
        ELSE IF r2 > den THEN fl + 1
        ELSE IF fl % 2 = 0 THEN fl ELSE fl + 1

\* C10 as claimed: each mixed sample is round(main*ratio_1 + invertedAux*ratio_2)
\* cut to 16 bits by wraparound.
C10_Original ==
    (obj = "mixer" /\ mix_out # <<>>) =>
        \A i \in 1..MixLen :
            FromString(mix_out[1], 2)[i] = Wrap16(RoundHalfEven(MixNum(i), MixDen))

\* C10, amended: each mixed sample is main*ratio_1 + invertedAux*ratio_2 with
\* its fraction discarded (truncated toward zero); the value lies in the
\* 16-bit range for every ratio in [0, 2].
C10_MixTruncates ==
    (obj = "mixer" /\ mix_out # <<>>) =>
        \A i \in 1..MixLen :
            LET v == FromString(mix_out[1], 2)[i]
            IN  /\ v >= -Int16Half /\ v < Int16Half
                /\ MixNum(i) >= 0 => (v * MixDen <= MixNum(i) /\ MixNum(i) < (v + 1) * MixDen)
                /\ MixNum(i) < 0 => ((v - 1) * MixDen < MixNum(i) /\ MixNum(i) <= v * MixDen)

\* a mix whose exact value is negative with a fraction
C10_Witness ==
    /\ obj = "mixer" /\ mix_out # <<>>
    /\ MixNum(1) < 0 /\ MixNum(1) % MixDen # 0

====
